---- MODULE Spec2Model ----
(***************************************************************************)
(* A model of the session engine of MonkMinal Rust (src/game.rs):          *)
(* get_words_for_game, the keystroke handling of run_game, the end-of-game *)
(* checks and the three phases of run_game (start prompt, game loop,       *)
(* return).                                                                 *)
(*                                                                         *)
(* Strings are sequences of characters.  A character is a one-character    *)
(* TLA+ string; "U" stands for a scalar whose UTF-8 encoding has two bytes *)
(* (such as U+00E9), every other character is ASCII.  String::len() counts *)
(* bytes while chars().nth() counts scalars, and the code uses both.       *)
(*                                                                         *)
(* Option<T> is a sequence: None is <<>>, Some(x) is <<x>>.                *)
(*                                                                         *)
(* Time is counted in whole seconds from the instant start_time records:  *)
(* only differences of Instants are observed, and the fraction of a second *)
(* never decides a comparison with a duration given in whole seconds.      *)
(***************************************************************************)
EXTENDS Integers, Sequences, FiniteSets, TLC

\* ------------------------------------------------------------- bounds

\* Character keys serviced in one session (caps typed_chars_total).
MaxTyped == 4
\* Longest errors buffer explored.
MaxErrors == 2
\* Largest elapsed time explored, in seconds.
MaxElapsed == 1
\* Largest configured word count explored.
MaxWordCount == 2
\* Largest configured duration explored, in seconds.
MaxTimeSeconds == 1
\* Longest corpus given to get_words_for_game called on its own.
MaxCorpusLen == 2

\* ------------------------------------------------------------- values

None == <<>>
Some(x) == <<x>>
is_some(o) == o /= <<>>
unwrap(o) == o[1]
unwrap_or(o, d) == IF o = <<>> THEN d ELSE o[1]

\* The characters a token or a key can carry.
Chars == {"a", " ", "U"}
\* char::default(), what unwrap_or_default() yields for a missing character.
NUL == "NUL"

\* char::len_utf8
len_utf8(c) == IF c = "U" THEN 2 ELSE 1

RECURSIVE len(_)
\* String::len: the length in bytes.
len(s) == IF s = <<>> THEN 0 ELSE len_utf8(Head(s)) + len(Tail(s))

\* s.chars().nth(i).unwrap_or_default()
chars_nth_or_default(s, i) == IF i < Len(s) THEN s[i + 1] ELSE NUL

\* str::is_char_boundary: byte offset b starts a character of s, or ends s.
is_char_boundary(s, b) == \E k \in 0..Len(s) : len(SubSeq(s, 1, k)) = b

\* String::pop (of a non-empty string).
pop(s) == SubSeq(s, 1, Len(s) - 1)

\* String::push
push(s, c) == Append(s, c)

\* usize::saturating_sub
saturating_sub(a, b) == IF a >= b THEN a - b ELSE 0

RECURSIVE split_whitespace(_, _)
\* str::split_whitespace, cur being the token under construction.
split_whitespace(s, cur) ==
    IF s = <<>> THEN (IF cur = <<>> THEN <<>> ELSE <<cur>>)
    ELSE IF Head(s) = " "
         THEN (IF cur = <<>> THEN <<>> ELSE <<cur>>) \o split_whitespace(Tail(s), <<>>)
         ELSE split_whitespace(Tail(s), Append(cur, Head(s)))

\* ------------------------------------------------------------- config

GameTypes == {"Time", "Words", "Quote"}
Difficulties == {"Easy", "Medium", "Hard"}

\* STANDARD_WORD_LENGTH
STANDARD_WORD_LENGTH == 5
\* The word count of a Time game.
TimeModeCount == 300
\* The word count of a Words game whose word_count is None.
DefaultWordCount == 30
\* The longest word of an Easy game, in bytes.
EasyMaxLen == 5
\* The longest word of a Medium game, in bytes.
MediumMaxLen == 8

\* The GameConfig values explored: as get_game_config builds them
\* (time_seconds is set in Time mode only, word_count in Words mode only),
\* and those with neither, which run_game handles with unwrap_or.  The
\* difficulties are the two that differ on the corpus below.
Configs ==
    { [game_type |-> "Time", time_seconds |-> t, word_count |-> None, difficulty |-> d] :
        t \in {None} \cup {Some(n) : n \in 1..MaxTimeSeconds}, d \in {"Easy", "Hard"} }
    \cup
    { [game_type |-> "Words", time_seconds |-> None, word_count |-> w, difficulty |-> d] :
        w \in {None} \cup {Some(n) : n \in 0..MaxWordCount}, d \in {"Easy", "Hard"} }
    \cup
    { [game_type |-> "Quote", time_seconds |-> None, word_count |-> None,
       difficulty |-> "Medium"] }

\* The data explored, allWords.json and quotes.json: both empty, or two
\* words (one of them of seven bytes, with a two-byte character) and three
\* quotes (one of them blank).
DataSets ==
    { [words |-> <<>>, quotes |-> <<>>],
      [words |-> << <<"a", "a">>, <<"a", "U", "a", "a", "a", "a">> >>,
       quotes |-> << [text |-> <<"a", "a", " ", "a">>, source |-> "s1"],
                     [text |-> <<"a">>, source |-> "s2"],
                     [text |-> <<" ">>, source |-> "s3"] >>] }

\* ------------------------------------------------------------- selection

\* The words a difficulty keeps.
filter_words(all_words, difficulty) ==
    LET keep(w) == CASE difficulty = "Easy" -> len(w) <= EasyMaxLen
                     [] difficulty = "Medium" -> len(w) <= MediumMaxLen
                     [] OTHER -> TRUE
    IN SelectSeq(all_words, keep)

\* SliceRandom::choose_multiple: amount elements at distinct positions, in
\* any order.
choose_multiple(slice, amount) ==
    { [i \in 1..amount |-> slice[p[i]]] :
        p \in { q \in [1..amount -> 1..Len(slice)] :
                  \A i, j \in 1..amount : i /= j => q[i] /= q[j] } }

\* get_words_for_game without the test of num_to_choose: it returns the
\* words chosen, none of them when the count is zero.
get_words_for_game_any_count(config, all_words, all_quotes) ==
    IF config.game_type = "Quote"
    THEN IF all_quotes = <<>>
         THEN { [ok |-> FALSE, words |-> <<>>] }
         ELSE { [ok |-> TRUE, words |-> split_whitespace(all_quotes[i].text, <<>>)] :
                  i \in 1..Len(all_quotes) }
    ELSE IF all_words = <<>>
         THEN { [ok |-> FALSE, words |-> <<>>] }
         ELSE LET count == IF config.game_type = "Time" THEN TimeModeCount
                           ELSE unwrap_or(config.word_count, DefaultWordCount)
                  filtered == filter_words(all_words, config.difficulty)
                  filtered_words == IF filtered = <<>> THEN all_words ELSE filtered
                  num_to_choose == IF Len(filtered_words) < count
                                   THEN Len(filtered_words) ELSE count
              IN { [ok |-> TRUE, words |-> ws] :
                     ws \in choose_multiple(filtered_words, num_to_choose) }

\* The results get_words_for_game can return.
get_words_for_game(config, all_words, all_quotes) ==
    IF config.game_type = "Quote"
    THEN IF all_quotes = <<>>
         THEN { [ok |-> FALSE, words |-> <<>>] }
         ELSE { [ok |-> TRUE, words |-> split_whitespace(all_quotes[i].text, <<>>)] :
                  i \in 1..Len(all_quotes) }
    ELSE IF all_words = <<>>
         THEN { [ok |-> FALSE, words |-> <<>>] }
         ELSE LET count == IF config.game_type = "Time" THEN TimeModeCount
                           ELSE unwrap_or(config.word_count, DefaultWordCount)
                  filtered == filter_words(all_words, config.difficulty)
                  filtered_words == IF filtered = <<>> THEN all_words ELSE filtered
                  num_to_choose == IF Len(filtered_words) < count
                                   THEN Len(filtered_words) ELSE count
              IN IF num_to_choose = 0
                 THEN { [ok |-> FALSE, words |-> <<>>] }
                 ELSE { [ok |-> TRUE, words |-> ws] :
                          ws \in choose_multiple(filtered_words, num_to_choose) }

\* ------------------------------------------------------------- metrics

\* An f64 is modelled by the rational it stands for, a record of a numerator
\* n and a denominator d > 0 in lowest terms; the rounding of f64 arithmetic
\* is not modelled.
RECURSIVE gcd(_, _)
gcd(a, b) == IF b = 0 THEN a ELSE gcd(b, a % b)

\* The rational n / d, for d > 0.
Rat(n, d) ==
    LET g == gcd(IF n < 0 THEN -n ELSE n, d)
    IN [n |-> n \div g, d |-> d \div g]

\* `x as f64`, for an integer x.
as_f64(x) == [n |-> x, d |-> 1]

\* f64 operators: <, -, *, / (by a positive divisor) and f64::max.
f64_lt(a, b) == a.n * b.d < b.n * a.d
f64_sub(a, b) == Rat(a.n * b.d - b.n * a.d, a.d * b.d)
f64_mul(a, b) == Rat(a.n * b.n, a.d * b.d)
f64_div(a, b) == Rat(a.n * b.d, a.d * b.n)
f64_max(a, b) == IF f64_lt(a, b) THEN b ELSE a

\* calculate_wpm with an accuracy of 100 whenever it returns early.
calculate_wpm_early_accuracy(correct_chars, total_chars_typed, time_seconds) ==
    IF f64_lt(time_seconds, Rat(1, 100)) \/ total_chars_typed = 0
    THEN [gross_wpm |-> as_f64(0), net_wpm |-> as_f64(0), accuracy |-> as_f64(100)]
    ELSE LET time_in_minutes == f64_div(time_seconds, as_f64(60))
             gross_wpm == f64_div(f64_div(as_f64(total_chars_typed),
                                          as_f64(STANDARD_WORD_LENGTH)),
                                  time_in_minutes)
             errors_count == saturating_sub(total_chars_typed, correct_chars)
             error_penalty_wpm == f64_div(as_f64(errors_count), time_in_minutes)
             net_wpm == f64_max(f64_sub(gross_wpm, error_penalty_wpm), as_f64(0))
             accuracy == f64_mul(f64_div(as_f64(correct_chars), as_f64(total_chars_typed)),
                                 as_f64(100))
         IN [gross_wpm |-> gross_wpm, net_wpm |-> net_wpm, accuracy |-> accuracy]

\* calculate_wpm without .max(0.0).
calculate_wpm_unclamped(correct_chars, total_chars_typed, time_seconds) ==
    IF f64_lt(time_seconds, Rat(1, 100)) \/ total_chars_typed = 0
    THEN LET accuracy == IF total_chars_typed = 0 THEN as_f64(100)
                         ELSE f64_mul(f64_div(as_f64(correct_chars),
                                              as_f64(total_chars_typed)),
                                      as_f64(100))
         IN [gross_wpm |-> as_f64(0), net_wpm |-> as_f64(0), accuracy |-> accuracy]
    ELSE LET time_in_minutes == f64_div(time_seconds, as_f64(60))
             gross_wpm == f64_div(f64_div(as_f64(total_chars_typed),
                                          as_f64(STANDARD_WORD_LENGTH)),
                                  time_in_minutes)
             errors_count == saturating_sub(total_chars_typed, correct_chars)
             error_penalty_wpm == f64_div(as_f64(errors_count), time_in_minutes)
             net_wpm == f64_sub(gross_wpm, error_penalty_wpm)
             accuracy == f64_mul(f64_div(as_f64(correct_chars), as_f64(total_chars_typed)),
                                 as_f64(100))
         IN [gross_wpm |-> gross_wpm, net_wpm |-> net_wpm, accuracy |-> accuracy]

\* calculate_wpm: the record stands for the tuple (gross_wpm, net_wpm,
\* accuracy).
calculate_wpm(correct_chars, total_chars_typed, time_seconds) ==
    IF f64_lt(time_seconds, Rat(1, 100)) \/ total_chars_typed = 0
    THEN LET accuracy == IF total_chars_typed = 0 THEN as_f64(100)
                         ELSE f64_mul(f64_div(as_f64(correct_chars),
                                              as_f64(total_chars_typed)),
                                      as_f64(100))
         IN [gross_wpm |-> as_f64(0), net_wpm |-> as_f64(0), accuracy |-> accuracy]
    ELSE LET time_in_minutes == f64_div(time_seconds, as_f64(60))
             gross_wpm == f64_div(f64_div(as_f64(total_chars_typed),
                                          as_f64(STANDARD_WORD_LENGTH)),
                                  time_in_minutes)
             errors_count == saturating_sub(total_chars_typed, correct_chars)
             error_penalty_wpm == f64_div(as_f64(errors_count), time_in_minutes)
             net_wpm == f64_max(f64_sub(gross_wpm, error_penalty_wpm), as_f64(0))
             accuracy == f64_mul(f64_div(as_f64(correct_chars), as_f64(total_chars_typed)),
                                 as_f64(100))
         IN [gross_wpm |-> gross_wpm, net_wpm |-> net_wpm, accuracy |-> accuracy]

\* ------------------------------------------------------------- game state

\* GameState::new
GameState_new(config, all_loaded_words, all_loaded_quotes, words_for_current_game) ==
    [ words_to_type |-> words_for_current_game,
      current_word_index |-> 0,
      current_char_index |-> 0,
      user_input |-> <<>>,
      errors |-> <<>>,
      start_time |-> None,
      config |-> config,
      all_loaded_words |-> all_loaded_words,
      all_loaded_quotes |-> all_loaded_quotes,
      correct_chars_total |-> 0,
      typed_chars_total |-> 0,
      game_over |-> FALSE,
      final_elapsed_time_seconds |-> None ]

\* ------------------------------------------------------------- events

\* crossterm events, and NoEvent for a poll that timed out.
NoEvent == [type |-> "None", code |-> "-", c |-> "-", kind |-> "-", cols |-> 0, rows |-> 0]
Key(code, c, kind) == [type |-> "Key", code |-> code, c |-> c, kind |-> kind, cols |-> 0, rows |-> 0]
KeyChar(c) == Key("Char", c, "Press")
KeyEsc == Key("Esc", "-", "Press")
KeyBackspace == Key("Backspace", "-", "Press")
Resize(cols, rows) == [type |-> "Resize", code |-> "-", c |-> "-", kind |-> "-", cols |-> cols, rows |-> rows]
\* A mouse, focus or paste event.
OtherEvent == [type |-> "Other", code |-> "-", c |-> "-", kind |-> "-", cols |-> 0, rows |-> 0]

\* The terminal sizes explored, <<columns, rows>>.
Sizes == { <<80, 24>>, <<100, 30>> }

\* The events explored: the character keys, Escape, Backspace, a key
\* released, the resizes, and an event of another type.
Events ==
    { KeyChar(c) : c \in Chars }
    \cup { KeyEsc, KeyBackspace, Key("Char", "a", "Release") }
    \cup { Resize(sz[1], sz[2]) : sz \in Sizes }
    \cup { OtherEvent }


\* ------------------------------------------------------------- typing

\* key_esc without the record of the elapsed time.
key_esc_unrecorded(gs, elapsed_seconds) ==
    [gs EXCEPT !.game_over = TRUE]

\* KeyCode::Esc
key_esc(gs, elapsed_seconds) ==
    [gs EXCEPT !.game_over = TRUE, !.final_elapsed_time_seconds = Some(elapsed_seconds)]

\* key_backspace with errors.clear() for errors.pop().
key_backspace_clears(gs) ==
    IF gs.errors /= <<>>
    THEN [gs EXCEPT !.errors = <<>>]
    ELSE IF gs.user_input /= <<>>
         THEN [gs EXCEPT !.user_input = pop(gs.user_input),
                         !.current_char_index = saturating_sub(gs.current_char_index, 1)]
         ELSE gs

\* key_backspace without the step back of current_char_index.
key_backspace_keeps_index(gs) ==
    IF gs.errors /= <<>>
    THEN [gs EXCEPT !.errors = pop(gs.errors)]
    ELSE IF gs.user_input /= <<>>
         THEN [gs EXCEPT !.user_input = pop(gs.user_input)]
         ELSE gs

\* KeyCode::Backspace
key_backspace(gs) ==
    IF gs.errors /= <<>>
    THEN [gs EXCEPT !.errors = pop(gs.errors)]
    ELSE IF gs.user_input /= <<>>
         THEN [gs EXCEPT !.user_input = pop(gs.user_input),
                         !.current_char_index = saturating_sub(gs.current_char_index, 1)]
         ELSE gs

\* count_typed without the count.
count_typed_forgotten(gs) == gs

\* The count of a character key, taken before the key is looked at.
count_typed(gs) == [gs EXCEPT !.typed_chars_total = gs.typed_chars_total + 1]

\* accept_char without the count of the correct character.
accept_char_uncounted(gs, c) ==
    [gs EXCEPT !.user_input = push(gs.user_input, c),
               !.current_char_index = gs.current_char_index + 1]

\* accept_char without user_input.push(c).
accept_char_unbuffered(gs, c) ==
    [gs EXCEPT !.current_char_index = gs.current_char_index + 1,
               !.correct_chars_total = gs.correct_chars_total + 1]

\* The character typed is the next one of the target word.
accept_char(gs, c) ==
    [gs EXCEPT !.user_input = push(gs.user_input, c),
               !.current_char_index = gs.current_char_index + 1,
               !.correct_chars_total = gs.correct_chars_total + 1]

\* next_word without user_input.clear().
next_word_keeps_input(gs) ==
    [gs EXCEPT !.current_word_index = gs.current_word_index + 1,
               !.current_char_index = 0,
               !.correct_chars_total = gs.correct_chars_total + 1]

\* next_word without the reset of current_char_index.
next_word_keeps_index(gs) ==
    [gs EXCEPT !.current_word_index = gs.current_word_index + 1,
               !.user_input = <<>>,
               !.correct_chars_total = gs.correct_chars_total + 1]

\* The space typed ends the target word.
next_word(gs) ==
    [gs EXCEPT !.current_word_index = gs.current_word_index + 1,
               !.current_char_index = 0,
               !.user_input = <<>>,
               !.correct_chars_total = gs.correct_chars_total + 1]

\* The character typed is kept as an error.
reject_char(gs, c) == [gs EXCEPT !.errors = push(gs.errors, c)]

\* The key is dropped by `continue`: every word has been typed.
past_last_word(gs) == gs.current_word_index >= Len(gs.words_to_type)

\* match_char without the test that errors is empty inside a word.
match_char_over_errors(gs, c) ==
    LET target_word == gs.words_to_type[gs.current_word_index + 1]
    IN IF gs.current_char_index < len(target_word)
       THEN IF c = chars_nth_or_default(target_word, gs.current_char_index)
            THEN [gs EXCEPT !.user_input = push(gs.user_input, c),
                            !.current_char_index = gs.current_char_index + 1,
                            !.correct_chars_total = gs.correct_chars_total + 1]
            ELSE [gs EXCEPT !.errors = push(gs.errors, c)]
       ELSE IF c = " " /\ gs.errors = <<>>
            THEN [gs EXCEPT !.current_word_index = gs.current_word_index + 1,
                            !.current_char_index = 0,
                            !.user_input = <<>>,
                            !.correct_chars_total = gs.correct_chars_total + 1]
            ELSE [gs EXCEPT !.errors = push(gs.errors, c)]

\* The character is compared with the target word.
match_char(gs, c) ==
    LET target_word == gs.words_to_type[gs.current_word_index + 1]
    IN IF gs.current_char_index < len(target_word)
       THEN IF c = chars_nth_or_default(target_word, gs.current_char_index) /\ gs.errors = <<>>
            THEN accept_char(gs, c)
            ELSE reject_char(gs, c)
       ELSE IF c = " " /\ gs.errors = <<>>
            THEN next_word(gs)
            ELSE reject_char(gs, c)

\* key_char counting the key only once it is known to have a target word.
key_char_counts_late(gs, c) ==
    IF past_last_word(gs) THEN gs ELSE match_char(count_typed(gs), c)

\* KeyCode::Char(c)
key_char(gs, c) ==
    LET counted == count_typed(gs)
    IN IF past_last_word(counted) THEN counted ELSE match_char(counted, c)

\* The Event::Key arm of the active game.
handle_key(gs, ev, elapsed_seconds) ==
    IF ev.kind /= "Press" THEN gs
    ELSE CASE ev.code = "Esc" -> key_esc(gs, elapsed_seconds)
           [] ev.code = "Backspace" -> key_backspace(gs)
           [] ev.code = "Char" -> key_char(gs, ev.c)
           [] OTHER -> gs

\* The key code the active game matches on, "None" for an event that
\* reaches none of the three arms.
serviced_key(ev) ==
    IF ev.type = "Key" /\ ev.kind = "Press" /\ ev.code \in {"Esc", "Backspace", "Char"}
    THEN ev.code
    ELSE "None"

\* The event of the active game skips the rest of the iteration.
skips_redraw(gs, ev) ==
    /\ ev.type = "Key" /\ ev.kind = "Press" /\ ev.code = "Char"
    /\ past_last_word(gs)

\* ------------------------------------------------------------- end of game

\* end_condition with > for >= in Time mode.
end_condition_after(gs, elapsed_seconds) ==
    CASE gs.config.game_type = "Time" ->
           elapsed_seconds > unwrap_or(gs.config.time_seconds, 0)
      [] gs.config.game_type = "Words" ->
           /\ gs.current_word_index >= unwrap_or(gs.config.word_count, 0)
           /\ gs.words_to_type /= <<>>
      [] OTHER ->
           /\ gs.current_word_index >= Len(gs.words_to_type)
           /\ gs.words_to_type /= <<>>

\* end_condition with the number of selected words for word_count in
\* Words mode.
end_condition_all_words(gs, elapsed_seconds) ==
    CASE gs.config.game_type = "Time" ->
           elapsed_seconds >= unwrap_or(gs.config.time_seconds, 0)
      [] OTHER ->
           /\ gs.current_word_index >= Len(gs.words_to_type)
           /\ gs.words_to_type /= <<>>

\* end_condition with > for >= in Quote mode.
end_condition_past_quote(gs, elapsed_seconds) ==
    CASE gs.config.game_type = "Time" ->
           elapsed_seconds >= unwrap_or(gs.config.time_seconds, 0)
      [] gs.config.game_type = "Words" ->
           /\ gs.current_word_index >= unwrap_or(gs.config.word_count, 0)
           /\ gs.words_to_type /= <<>>
      [] OTHER ->
           /\ gs.current_word_index > Len(gs.words_to_type)
           /\ gs.words_to_type /= <<>>

\* game_should_end for a game that is not over.
end_condition(gs, elapsed_seconds) ==
    CASE gs.config.game_type = "Time" ->
           elapsed_seconds >= unwrap_or(gs.config.time_seconds, 0)
      [] gs.config.game_type = "Words" ->
           /\ gs.current_word_index >= unwrap_or(gs.config.word_count, 0)
           /\ gs.words_to_type /= <<>>
      [] OTHER ->
           /\ gs.current_word_index >= Len(gs.words_to_type)
           /\ gs.words_to_type /= <<>>

\* The game over check at the head of an iteration.
game_should_end_now(gs, elapsed_seconds) ==
    ~gs.game_over /\ end_condition(gs, elapsed_seconds)

\* end_check without the test that the game is not over yet: the elapsed
\* time is recorded again in every iteration whose end condition holds.
end_check_overwrites(gs, elapsed_seconds) ==
    IF end_condition(gs, elapsed_seconds)
    THEN [gs EXCEPT !.game_over = TRUE, !.final_elapsed_time_seconds = Some(elapsed_seconds)]
    ELSE gs

\* The game state after that check.
end_check(gs, elapsed_seconds) ==
    IF game_should_end_now(gs, elapsed_seconds)
    THEN [gs EXCEPT !.game_over = TRUE, !.final_elapsed_time_seconds = Some(elapsed_seconds)]
    ELSE gs

\* ------------------------------------------------------------- rendering

\* display_game_interface panics: the cursor is at a character index with
\* no character (unwrap of None), or the rest of the target word is sliced
\* off a character boundary.
display_panics(gs) ==
    /\ gs.current_word_index < Len(gs.words_to_type)
    /\ LET target_word == gs.words_to_type[gs.current_word_index + 1]
           i == gs.current_char_index
       IN /\ i < len(target_word)
          /\ \/ i >= Len(target_word)
             \/ /\ i + 1 < len(target_word)
                /\ ~is_char_boundary(target_word, i + 1)

\* ------------------------------------------------------------- state

VARIABLES
    pc,               \* where run_game is: "entry", "prompt", "game_loop",
                      \* or how it ended: "Ok", "Err", "panic"; "exit" once
                      \* main has handled an Err
    config,           \* run_game's arguments
    all_words,
    all_quotes,
    game_state,       \* the GameState, NoGameState while there is none
    term_cols,        \* the cached terminal size
    term_rows,
    raw_mode,         \* the terminal is in raw mode
    cursor_hidden,    \* the terminal's cursor is hidden
    elapsed_seconds,  \* the game loop's elapsed_seconds
    game_should_end,  \* the game loop's game_should_end
    key_code,         \* the key the active game serviced in the latest
                      \* iteration: "Esc", "Backspace", "Char", or "None"
    selection,        \* the Result of get_words_for_game called on its own
    wpm               \* a call of calculate_wpm on its own: its arguments
                      \* and its result

vars == << pc, config, all_words, all_quotes, game_state, term_cols, term_rows,
           raw_mode, cursor_hidden, elapsed_seconds, game_should_end, key_code,
           selection, wpm >>

\* The value of selection while get_words_for_game has not returned.
NoSelection == [ok |-> FALSE, words |-> <<>>]

\* The result of calculate_wpm while it has not returned.
NoMetrics == [gross_wpm |-> as_f64(0), net_wpm |-> as_f64(0), accuracy |-> as_f64(0)]

\* The value of wpm while calculate_wpm is not called on its own.
NoWpm == [correct_chars |-> 0, total_chars_typed |-> 0, time_seconds |-> as_f64(0),
          result |-> NoMetrics]

\* The value of game_state while run_game holds no GameState: before
\* GameState::new, and after the return that drops it.
NoGameState == GameState_new(config, all_words, all_quotes, <<>>)

\* run_game is called with a config and the two corpora.
Init ==
    /\ pc = "entry"
    /\ config \in Configs
    /\ \E data \in DataSets : all_words = data.words /\ all_quotes = data.quotes
    /\ game_state = GameState_new(config, all_words, all_quotes, <<>>)
    /\ term_cols = 0
    /\ term_rows = 0
    /\ raw_mode = FALSE
    /\ cursor_hidden = FALSE
    /\ elapsed_seconds = 0
    /\ game_should_end = FALSE
    /\ key_code = "None"
    /\ selection = NoSelection
    /\ wpm = NoWpm

\* ------------------------------------------------------------- run_game

\* run_game returns result, dropping its locals; raw and hidden are the
\* terminal's mode as the return leaves it.
Return(result, raw, hidden) ==
    /\ pc' = result
    /\ game_state' = NoGameState
    /\ term_cols' = 0
    /\ term_rows' = 0
    /\ elapsed_seconds' = 0
    /\ game_should_end' = FALSE
    /\ key_code' = "None"
    /\ raw_mode' = raw
    /\ cursor_hidden' = hidden

\* A `?` returns the error of a failed call: nothing restores the terminal.
Fail == Return("Err", raw_mode, cursor_hidden)

\* Setup without the test of an empty list of words.
Setup_unchecked ==
    /\ pc = "entry"
    /\ UNCHANGED << config, all_words, all_quotes, selection, wpm >>
    /\ \/ Fail
       \/ Return("Err", TRUE, FALSE)
       \/ \E sel \in get_words_for_game(config, all_words, all_quotes) :
            IF ~sel.ok
            THEN Return("Err", TRUE, TRUE)
            ELSE \/ Return("Err", TRUE, TRUE)
                 \/ \E sz \in Sizes :
                      /\ pc' = "prompt"
                      /\ game_state' = GameState_new(config, all_words, all_quotes, sel.words)
                      /\ term_cols' = sz[1]
                      /\ term_rows' = sz[2]
                      /\ raw_mode' = TRUE
                      /\ cursor_hidden' = TRUE
                      /\ UNCHANGED << elapsed_seconds, game_should_end, key_code >>

\* run_game up to the start prompt: raw mode, word selection, GameState::new,
\* the terminal size and the prompt.
Setup ==
    /\ pc = "entry"
    /\ UNCHANGED << config, all_words, all_quotes, selection, wpm >>
    /\ \/ \* enable_raw_mode fails
          Fail
       \/ \* Clear or Hide fails
          Return("Err", TRUE, FALSE)
       \/ \E sel \in get_words_for_game(config, all_words, all_quotes) :
            IF ~sel.ok
            THEN Return("Err", TRUE, TRUE)
            ELSE IF sel.words = <<>>
            THEN \* the cleanup of the empty list
                 Return("Err", FALSE, FALSE)
            ELSE \/ \* terminal::size or the prompt fails
                    Return("Err", TRUE, TRUE)
                 \/ \E sz \in Sizes :
                      /\ pc' = "prompt"
                      /\ game_state' = GameState_new(config, all_words, all_quotes, sel.words)
                      /\ term_cols' = sz[1]
                      /\ term_rows' = sz[2]
                      /\ raw_mode' = TRUE
                      /\ cursor_hidden' = TRUE
                      /\ UNCHANGED << elapsed_seconds, game_should_end, key_code >>

\* PromptIter with the key that starts the game counted as typed.
PromptIter_counts_key(ev) ==
    /\ pc = "prompt"
    /\ UNCHANGED << config, all_words, all_quotes, selection, wpm >>
    /\ \/ Fail
       \/ /\ ev.type = "Key"
          /\ game_state' = [game_state EXCEPT !.start_time = Some(0),
                                              !.typed_chars_total = 1]
          /\ pc' = "game_loop"
          /\ UNCHANGED << term_cols, term_rows, raw_mode, cursor_hidden,
                          elapsed_seconds, game_should_end, key_code >>
       \/ /\ ev.type = "Resize"
          /\ \/ Fail
             \/ /\ term_cols' = ev.cols
                /\ term_rows' = ev.rows
                /\ UNCHANGED << pc, game_state, raw_mode, cursor_hidden,
                                elapsed_seconds, game_should_end, key_code >>
       \/ /\ ev.type \notin {"Key", "Resize"}
          /\ UNCHANGED << pc, game_state, term_cols, term_rows, raw_mode, cursor_hidden,
                          elapsed_seconds, game_should_end, key_code >>

\* PromptIter with a resize taken for a key: it starts the game.
PromptIter_resize_starts(ev) ==
    /\ pc = "prompt"
    /\ UNCHANGED << config, all_words, all_quotes, selection, wpm >>
    /\ \/ Fail
       \/ /\ ev.type \in {"Key", "Resize"}
          /\ game_state' = [game_state EXCEPT !.start_time = Some(0)]
          /\ pc' = "game_loop"
          /\ UNCHANGED << term_cols, term_rows, raw_mode, cursor_hidden,
                          elapsed_seconds, game_should_end, key_code >>
       \/ /\ ev.type \notin {"Key", "Resize"}
          /\ UNCHANGED << pc, game_state, term_cols, term_rows, raw_mode, cursor_hidden,
                          elapsed_seconds, game_should_end, key_code >>

\* One iteration of the start prompt's loop; ev is the event event::poll
\* delivers, NoEvent when it times out.
PromptIter(ev) ==
    /\ pc = "prompt"
    /\ UNCHANGED << config, all_words, all_quotes, selection, wpm >>
    /\ \/ \* event::poll or event::read fails
          Fail
       \/ /\ ev.type = "Key"
          /\ game_state' = [game_state EXCEPT !.start_time = Some(0)]
          /\ pc' = "game_loop"
          /\ UNCHANGED << term_cols, term_rows, raw_mode, cursor_hidden,
                          elapsed_seconds, game_should_end, key_code >>
       \/ /\ ev.type = "Resize"
          /\ \/ \* the prompt cannot be displayed again
                Fail
             \/ /\ term_cols' = ev.cols
                /\ term_rows' = ev.rows
                /\ UNCHANGED << pc, game_state, raw_mode, cursor_hidden,
                                elapsed_seconds, game_should_end, key_code >>
       \/ /\ ev.type \notin {"Key", "Resize"}
          /\ UNCHANGED << pc, game_state, term_cols, term_rows, raw_mode, cursor_hidden,
                          elapsed_seconds, game_should_end, key_code >>

\* The end of an iteration that goes on: terminal::size refreshes the
\* cached size.
SizeCheck(gs, elapsed, should_end, key) ==
    \/ \* terminal::size fails
       Fail
    \/ \E sz \in Sizes :
         /\ pc' = "game_loop"
         /\ game_state' = gs
         /\ elapsed_seconds' = elapsed
         /\ game_should_end' = should_end
         /\ key_code' = key
         /\ term_cols' = sz[1]
         /\ term_rows' = sz[2]
         /\ UNCHANGED << raw_mode, cursor_hidden >>

\* The game over arm of an iteration: the game over screen, then one event.
EndedArm(gs, elapsed, should_end, ev) ==
    \/ \* the game over screen, event::poll or event::read fails
       Fail
    \/ /\ ev.type = "Key"
       /\ \* break 'game_loop: the cursor is shown, raw mode is left
          \/ Return("Err", TRUE, TRUE)
          \/ Return("Err", TRUE, FALSE)
          \/ Return("Ok", FALSE, FALSE)
    \/ /\ ev.type /= "Key"
       /\ SizeCheck(gs, elapsed, should_end, "None")

\* The active arm of an iteration: one event, then the game interface.
PlayingArm(gs, elapsed, ev) ==
    \/ \* event::poll or event::read fails
       Fail
    \/ LET handled == IF ev.type = "Key" THEN handle_key(gs, ev, elapsed) ELSE gs
           key == serviced_key(ev)
       IN /\ (ev.type = "Key" /\ ev.kind = "Press" /\ ev.code = "Char")
                => gs.typed_chars_total < MaxTyped
          /\ Len(handled.errors) <= MaxErrors
          /\ IF skips_redraw(count_typed(gs), ev)
             THEN \* continue
                  /\ game_state' = handled
                  /\ elapsed_seconds' = elapsed
                  /\ game_should_end' = FALSE
                  /\ key_code' = key
                  /\ UNCHANGED << pc, term_cols, term_rows, raw_mode, cursor_hidden >>
             ELSE \/ \* display_game_interface fails
                     Fail
                  \/ IF display_panics(handled)
                     THEN /\ pc' = "panic"
                          /\ game_state' = handled
                          /\ elapsed_seconds' = elapsed
                          /\ game_should_end' = FALSE
                          /\ key_code' = key
                          /\ term_cols' = IF ev.type = "Resize" THEN ev.cols ELSE term_cols
                          /\ term_rows' = IF ev.type = "Resize" THEN ev.rows ELSE term_rows
                          /\ UNCHANGED << raw_mode, cursor_hidden >>
                     ELSE SizeCheck(handled, elapsed, FALSE, key)

\* GameLoopIter with the event serviced in the iteration that finds the
\* game over.
GameLoopIter_event_first(dt, ev) ==
    /\ pc = "game_loop"
    /\ elapsed_seconds + dt <= MaxElapsed
    /\ UNCHANGED << config, all_words, all_quotes, selection, wpm >>
    /\ LET elapsed == elapsed_seconds + dt
           should_end == game_should_end_now(game_state, elapsed)
           checked == end_check(game_state, elapsed)
       IN IF game_state.game_over
          THEN EndedArm(checked, elapsed, should_end, ev)
          ELSE PlayingArm(checked, elapsed, ev)

\* One iteration of 'game_loop: dt is the time since the clock was last
\* read, ev the event event::poll delivers, NoEvent when it times out.
GameLoopIter(dt, ev) ==
    /\ pc = "game_loop"
    /\ elapsed_seconds + dt <= MaxElapsed
    /\ UNCHANGED << config, all_words, all_quotes, selection, wpm >>
    /\ LET elapsed == elapsed_seconds + dt
           should_end == game_should_end_now(game_state, elapsed)
           checked == end_check(game_state, elapsed)
       IN IF checked.game_over
          THEN EndedArm(checked, elapsed, should_end, ev)
          ELSE PlayingArm(checked, elapsed, ev)

\* main's fallback for an Err of run_game: it shows the cursor and leaves
\* raw mode, ignoring the failure of either call, and exits the process.
MainFallback ==
    /\ pc = "Err"
    /\ pc' = "exit"
    /\ cursor_hidden' \in {FALSE, cursor_hidden}
    /\ raw_mode' \in {FALSE, raw_mode}
    /\ UNCHANGED << config, all_words, all_quotes, game_state, term_cols, term_rows,
                    elapsed_seconds, game_should_end, key_code, selection, wpm >>

Next ==
    \/ Setup
    \/ \E ev \in Events \cup {NoEvent} : PromptIter(ev)
    \/ \E dt \in 0..1, ev \in Events \cup {NoEvent} : GameLoopIter(dt, ev)
    \/ MainFallback

Spec == Init /\ [][Next]_vars

\* An iteration of 'game_loop that finds the clock advanced: every
\* iteration ends, its poll waiting 100 ms at most, and the next one reads
\* start_time.elapsed() again.
Tick == \E ev \in Events \cup {NoEvent} : GameLoopIter(1, ev)

\* run_game with the game loop iterating as time passes.
LiveSpec == Spec /\ WF_vars(Tick)

\* ------------------------------------------------------------- selection alone

\* get_words_for_game is a public function: the specification SelSpec calls
\* it on its own, on every config and every corpus below.

\* The words of the corpora: of 5, 6, 8 and 9 bytes, and one of three
\* characters that take 6 bytes.
SelWordSet ==
    { <<"a", "a", "a", "a", "a">>,
      <<"a", "a", "a", "a", "a", "a">>,
      <<"a", "a", "a", "a", "a", "a", "a", "a">>,
      <<"a", "a", "a", "a", "a", "a", "a", "a", "a">>,
      <<"U", "U", "U">> }

\* The quotes of the corpora: of two words, of one word between blanks, and
\* of blanks only.
SelQuoteSet ==
    { [text |-> <<"a", "a", " ", "a">>, source |-> "s1"],
      [text |-> <<" ", "a", " ">>, source |-> "s2"],
      [text |-> <<" ", " ">>, source |-> "s3"] }

\* The corpora: every sequence of at most MaxCorpusLen words, or quotes,
\* repeated ones included.
SelWordCorpora == UNION { [1..n -> SelWordSet] : n \in 0..MaxCorpusLen }
SelQuoteCorpora == UNION { [1..n -> SelQuoteSet] : n \in 0..MaxCorpusLen }

\* The configs: every mode and difficulty, word_count set or not.
SelConfigs ==
    { [game_type |-> "Time", time_seconds |-> Some(15), word_count |-> None,
       difficulty |-> d] : d \in Difficulties }
    \cup
    { [game_type |-> "Words", time_seconds |-> None, word_count |-> w, difficulty |-> d] :
        w \in {None} \cup {Some(n) : n \in 0..MaxWordCount}, d \in Difficulties }
    \cup
    { [game_type |-> "Quote", time_seconds |-> None, word_count |-> None,
       difficulty |-> d] : d \in Difficulties }

\* get_words_for_game is about to be called: a Quote config with every
\* corpus of quotes, another config with every corpus of words, the other
\* corpus empty or not.
SelInit ==
    /\ pc = "select"
    /\ config \in SelConfigs
    /\ IF config.game_type = "Quote"
       THEN /\ all_quotes \in SelQuoteCorpora
            /\ all_words \in {<<>>, << <<"a", "a", "a", "a", "a">> >>}
       ELSE /\ all_words \in SelWordCorpora
            /\ all_quotes \in {<<>>, << [text |-> <<"a", "a", " ", "a">>, source |-> "s1"] >>}
    /\ game_state = GameState_new(config, all_words, all_quotes, <<>>)
    /\ term_cols = 0
    /\ term_rows = 0
    /\ raw_mode = FALSE
    /\ cursor_hidden = FALSE
    /\ elapsed_seconds = 0
    /\ game_should_end = FALSE
    /\ key_code = "None"
    /\ selection = NoSelection
    /\ wpm = NoWpm

\* get_words_for_game returns.
Select ==
    /\ pc = "select"
    /\ pc' = "selected"
    /\ selection' \in get_words_for_game(config, all_words, all_quotes)
    /\ UNCHANGED << config, all_words, all_quotes, game_state, term_cols, term_rows,
                    raw_mode, cursor_hidden, elapsed_seconds, game_should_end, key_code,
                    wpm >>

SelNext == Select

SelSpec == SelInit /\ [][SelNext]_vars

\* ------------------------------------------------------------- metrics alone

\* calculate_wpm is a public function: the specification WpmSpec calls it on
\* its own.

\* The character counts it is given: the small ones, and 45 and 50.
WpmCounts == (0..MaxTyped) \cup {45, 50}

\* The times it is given, in seconds: none, just under, at and just over a
\* hundredth of a second, whole seconds, and half a minute.
WpmTimes ==
    { Rat(ms, 1000) : ms \in {0, 9, 10, 11} }
    \cup { as_f64(t) : t \in 1..MaxElapsed }
    \cup { as_f64(30) }

\* calculate_wpm is about to be called.
WpmInit ==
    /\ pc = "calculate"
    /\ \E correct \in WpmCounts, typed \in WpmCounts, time \in WpmTimes :
         wpm = [correct_chars |-> correct, total_chars_typed |-> typed,
                time_seconds |-> time, result |-> NoMetrics]
    /\ config \in { c \in Configs : c.game_type = "Quote" }
    /\ all_words = <<>>
    /\ all_quotes = <<>>
    /\ game_state = GameState_new(config, all_words, all_quotes, <<>>)
    /\ term_cols = 0
    /\ term_rows = 0
    /\ raw_mode = FALSE
    /\ cursor_hidden = FALSE
    /\ elapsed_seconds = 0
    /\ game_should_end = FALSE
    /\ key_code = "None"
    /\ selection = NoSelection

\* calculate_wpm returns.
Calculate ==
    /\ pc = "calculate"
    /\ pc' = "calculated"
    /\ wpm' = [wpm EXCEPT !.result = calculate_wpm(wpm.correct_chars,
                                                   wpm.total_chars_typed,
                                                   wpm.time_seconds)]
    /\ UNCHANGED << config, all_words, all_quotes, game_state, term_cols, term_rows,
                    raw_mode, cursor_hidden, elapsed_seconds, game_should_end, key_code,
                    selection >>

WpmNext == Calculate

WpmSpec == WpmInit /\ [][WpmNext]_vars

\* ------------------------------------------------------------- claims

\* The target word of a game state that has one.
TargetWord(gs) == gs.words_to_type[gs.current_word_index + 1]

\* The game state has a word left to type.
HasTarget(gs) == gs.current_word_index < Len(gs.words_to_type)

\* The character the game state expects: the next one of the target word,
\* the separator once the word is typed.
Expected(gs) ==
    IF gs.current_char_index < Len(TargetWord(gs))
    THEN TargetWord(gs)[gs.current_char_index + 1]
    ELSE " "

\* A step in which the active game services the key press ev.
Services(ev) ==
    /\ pc = "game_loop"
    /\ key_code' = ev.code
    /\ \E dt \in 0..1 : GameLoopIter(dt, ev)

\* C1: in the active game, with a word left, no pending error and the
\* cursor inside the word, the key of the expected character appends it to
\* user_input, adds one to current_char_index, correct_chars_total and
\* typed_chars_total, and leaves errors and current_word_index alone.
C1_CorrectCharAccepted ==
    [][\A c \in Chars :
         ( /\ Services(KeyChar(c))
           /\ HasTarget(game_state)
           /\ game_state.errors = <<>>
           /\ game_state.current_char_index < Len(TargetWord(game_state))
           /\ c = Expected(game_state) )
         => game_state' =
              [game_state EXCEPT
                 !.user_input = Append(game_state.user_input, c),
                 !.current_char_index = game_state.current_char_index + 1,
                 !.correct_chars_total = game_state.correct_chars_total + 1,
                 !.typed_chars_total = game_state.typed_chars_total + 1]]_vars

\* C1's case: a character key has just been accepted inside a word.
C1_Witness ==
    /\ pc = "game_loop"
    /\ key_code = "Char"
    /\ game_state.errors = <<>>
    /\ game_state.user_input /= <<>>
    /\ game_state.correct_chars_total = 1
    /\ game_state.typed_chars_total = 1

\* C2: in the active game, with a word left, a character key that is not
\* the expected character, or any character key while errors is not empty,
\* is appended to errors and adds one to typed_chars_total only.
C2_WrongCharRejected ==
    [][\A c \in Chars :
         ( /\ Services(KeyChar(c))
           /\ HasTarget(game_state)
           /\ (c /= Expected(game_state) \/ game_state.errors /= <<>>) )
         => game_state' =
              [game_state EXCEPT
                 !.errors = Append(game_state.errors, c),
                 !.typed_chars_total = game_state.typed_chars_total + 1]]_vars

\* C2's case: the expected character has been typed behind a pending error
\* and has joined the errors.
C2_Witness ==
    /\ pc = "game_loop"
    /\ key_code = "Char"
    /\ HasTarget(game_state)
    /\ Len(game_state.errors) = 2
    /\ game_state.errors[2] = Expected(game_state)
    /\ game_state.correct_chars_total = 0
    /\ game_state.typed_chars_total = 2

\* C3: with the cursor at the end of the target word, a space with no
\* pending error moves to the next word and adds one to both counters; any
\* other character key, and a space behind a pending error, is appended to
\* errors and adds one to typed_chars_total only.
C3_EndOfWord ==
    [][\A c \in Chars :
         ( /\ Services(KeyChar(c))
           /\ HasTarget(game_state)
           /\ game_state.current_char_index = Len(TargetWord(game_state)) )
         => IF c = " " /\ game_state.errors = <<>>
            THEN game_state' =
                   [game_state EXCEPT
                      !.current_word_index = game_state.current_word_index + 1,
                      !.current_char_index = 0,
                      !.user_input = <<>>,
                      !.correct_chars_total = game_state.correct_chars_total + 1,
                      !.typed_chars_total = game_state.typed_chars_total + 1]
            ELSE game_state' =
                   [game_state EXCEPT
                      !.errors = Append(game_state.errors, c),
                      !.typed_chars_total = game_state.typed_chars_total + 1]]_vars

\* C3's case: a space has just ended a word of two characters.
C3_Witness ==
    /\ pc = "game_loop"
    /\ key_code = "Char"
    /\ game_state.current_word_index = 1
    /\ game_state.current_char_index = 0
    /\ game_state.user_input = <<>>
    /\ game_state.correct_chars_total = 3
    /\ game_state.typed_chars_total = 3

\* C4: Backspace while errors is not empty removes the last character of
\* errors and nothing else.
C4_BackspaceErrors ==
    [][( /\ Services(KeyBackspace)
         /\ game_state.errors /= <<>> )
       => game_state' =
            [game_state EXCEPT
               !.errors = SubSeq(game_state.errors, 1, Len(game_state.errors) - 1)]]_vars

\* C4's case: Backspace has just taken the second of two errors typed
\* behind an accepted character.
C4_Witness ==
    /\ pc = "game_loop"
    /\ key_code = "Backspace"
    /\ Len(game_state.errors) = 1
    /\ game_state.user_input /= <<>>
    /\ game_state.correct_chars_total = 1
    /\ game_state.typed_chars_total = 3

\* C5: Backspace while errors is empty and user_input is not removes the
\* last character of user_input and takes one from current_char_index; with
\* both empty it changes nothing; it never changes the counters.
C5_BackspaceInput ==
    [][Services(KeyBackspace)
       => /\ game_state'.correct_chars_total = game_state.correct_chars_total
          /\ game_state'.typed_chars_total = game_state.typed_chars_total
          /\ (game_state.errors = <<>> /\ game_state.user_input /= <<>>)
               => game_state' =
                    [game_state EXCEPT
                       !.user_input =
                          SubSeq(game_state.user_input, 1, Len(game_state.user_input) - 1),
                       !.current_char_index = game_state.current_char_index - 1]
          /\ (game_state.errors = <<>> /\ game_state.user_input = <<>>)
               => game_state' = game_state]_vars

\* C5's case: Backspace has just taken the second of two accepted
\* characters.
C5_Witness ==
    /\ pc = "game_loop"
    /\ key_code = "Backspace"
    /\ game_state.errors = <<>>
    /\ Len(game_state.user_input) = 1
    /\ game_state.current_char_index = 1
    /\ game_state.correct_chars_total = 2
    /\ game_state.typed_chars_total = 2

\* A step after which run_game still holds its GameState.
KeepsGameState == pc' \notin {"Ok", "Err"}

\* C6: typed_chars_total is never below correct_chars_total, and no step
\* of a session makes either counter smaller.
C6_CountersOrdered ==
    /\ [](game_state.typed_chars_total >= game_state.correct_chars_total)
    /\ [][KeepsGameState =>
            /\ game_state'.typed_chars_total >= game_state.typed_chars_total
            /\ game_state'.correct_chars_total >= game_state.correct_chars_total]_vars

\* C6's case: both counters have grown, by different amounts, and
\* Backspace has been serviced since.
C6_Witness ==
    /\ pc = "game_loop"
    /\ key_code = "Backspace"
    /\ game_state.correct_chars_total = 1
    /\ game_state.typed_chars_total = 3

\* C7: current_word_index is between 0 and the number of words, and while
\* a word is left current_char_index is at most its length.
C7_IndicesInRange ==
    /\ 0 <= game_state.current_word_index
    /\ game_state.current_word_index <= Len(game_state.words_to_type)
    /\ 0 <= game_state.current_char_index
    /\ HasTarget(game_state)
         => game_state.current_char_index <= Len(TargetWord(game_state))

\* C7's case: a space has moved the game to a second word that is shorter
\* than the first.
C7_Witness ==
    /\ pc = "game_loop"
    /\ key_code = "Char"
    /\ game_state.current_word_index = 1
    /\ HasTarget(game_state)
    /\ Len(TargetWord(game_state)) < Len(game_state.words_to_type[1])

\* C8 as claimed: a character key serviced when no word is left changes no
\* field of the game state.
C8_PastLastWordIgnored ==
    [][\A c \in Chars :
         (Services(KeyChar(c)) /\ ~HasTarget(game_state))
         => game_state' = game_state]_vars

\* C8 amended: a character key serviced when no word is left adds one to
\* typed_chars_total and changes no other field of the game state.
C8_PastLastWordCounted ==
    [][\A c \in Chars :
         (Services(KeyChar(c)) /\ ~HasTarget(game_state))
         => /\ game_state' =
                 [game_state EXCEPT
                    !.typed_chars_total = game_state.typed_chars_total + 1]
            /\ pc' = "game_loop"]_vars

\* C8's case: the active game has no word left and is about to service a
\* character key.
C8_Witness ==
    /\ pc = "game_loop"
    /\ ~game_state.game_over
    /\ ~HasTarget(game_state)
    /\ ENABLED (\E c \in Chars : Services(KeyChar(c)))

\* A step of the game loop that starts with the game not over and does not
\* return.
ActiveTick ==
    /\ pc = "game_loop"
    /\ ~game_state.game_over
    /\ pc' \in {"game_loop", "panic"}

\* C9: in Time mode with a duration set, an iteration of the active game
\* finds the game over by time exactly when its elapsed time has reached
\* the duration; the game is then over with that elapsed time recorded, and
\* otherwise it goes on unless Escape is pressed.
C9_TimedEnd ==
    [][( /\ ActiveTick
         /\ config.game_type = "Time"
         /\ is_some(config.time_seconds) )
       => /\ game_should_end' <=> (elapsed_seconds' >= unwrap(config.time_seconds))
          /\ game_should_end' =>
               /\ game_state'.game_over
               /\ game_state'.final_elapsed_time_seconds = Some(elapsed_seconds')
          /\ (~game_should_end' /\ key_code' /= "Esc") => ~game_state'.game_over]_vars

\* C9's case: a Time game has just ended at an elapsed time equal to its
\* duration.
C9_Witness ==
    /\ pc = "game_loop"
    /\ config.game_type = "Time"
    /\ is_some(config.time_seconds)
    /\ game_should_end
    /\ game_state.game_over
    /\ elapsed_seconds = unwrap(config.time_seconds)

\* C10: in Words mode with a word count set, an iteration of the active
\* game finds the game over exactly when current_word_index has reached
\* the word count.
C10_WordCountEnd ==
    [][( /\ ActiveTick
         /\ config.game_type = "Words"
         /\ is_some(config.word_count) )
       => (game_should_end' <=>
             game_state.current_word_index >= unwrap(config.word_count))]_vars

\* C10's case: a Words game has just ended with current_word_index equal
\* to its word count.
C10_Witness ==
    /\ pc = "game_loop"
    /\ config.game_type = "Words"
    /\ is_some(config.word_count)
    /\ game_should_end
    /\ game_state.game_over
    /\ game_state.current_word_index = unwrap(config.word_count)

\* C11: in Quote mode an iteration of the active game finds the game over
\* exactly when no word is left; it then ends the game before it looks at
\* any event, so that no character key is ever serviced by a Quote game
\* that has no word left.
C11_QuoteEndsBeforeInput ==
    [][config.game_type = "Quote" =>
         /\ ActiveTick => (game_should_end' <=> ~HasTarget(game_state))
         /\ (ActiveTick /\ ~HasTarget(game_state))
              => /\ key_code' = "None"
                 /\ game_state' =
                      [game_state EXCEPT
                         !.game_over = TRUE,
                         !.final_elapsed_time_seconds = Some(elapsed_seconds')]
         /\ (\E c \in Chars : Services(KeyChar(c))) => HasTarget(game_state)]_vars

\* C11's case: a Quote game has just ended with every word typed.
C11_Witness ==
    /\ pc = "game_loop"
    /\ config.game_type = "Quote"
    /\ game_should_end
    /\ game_state.game_over
    /\ game_state.current_word_index = Len(game_state.words_to_type)
    /\ game_state.typed_chars_total = 2

\* C12: Escape serviced by the active game sets game_over, records the
\* elapsed time of that iteration and changes no other field; the next
\* iteration finds the game over and services no key of the active game.
C12_EscapeEnds ==
    [][/\ Services(KeyEsc)
            => game_state' =
                 [game_state EXCEPT
                    !.game_over = TRUE,
                    !.final_elapsed_time_seconds = Some(elapsed_seconds')]
       /\ (pc = "game_loop" /\ key_code = "Esc")
            => /\ game_state.game_over
               /\ key_code' = "None"
               /\ KeepsGameState => game_state' = game_state]_vars

\* C12's case: Escape has just been serviced in a Words game with a
\* character accepted and an error pending.
C12_Witness ==
    /\ pc = "game_loop"
    /\ key_code = "Esc"
    /\ config.game_type = "Words"
    /\ game_state.game_over
    /\ game_state.final_elapsed_time_seconds = Some(elapsed_seconds)
    /\ game_state.correct_chars_total = 1
    /\ Len(game_state.errors) = 1

\* C13: game_over is true exactly when final_elapsed_time_seconds is set;
\* once the game is over no iteration changes the game state; an iteration
\* that reads a key event then never stays in the loop, and only one that
\* reads a key event returns Ok.
C13_EndedFrozen ==
    /\ [](game_state.game_over <=> is_some(game_state.final_elapsed_time_seconds))
    /\ [][(pc = "game_loop" /\ game_state.game_over)
            => /\ KeepsGameState
                    => /\ pc' = "game_loop"
                       /\ game_state' = game_state
                       /\ \A ev \in Events :
                            ev.type = "Key" => ~(\E dt \in 0..1 : GameLoopIter(dt, ev))
               /\ pc' = "Ok"
                    => \A ev \in Events \cup {NoEvent} :
                         ev.type /= "Key" => ~(\E dt \in 0..1 : GameLoopIter(dt, ev))]_vars

\* C13's case: the game was ended by Escape with an error pending, time has
\* passed since, and the loop is still showing the game over screen.
C13_Witness ==
    /\ pc = "game_loop"
    /\ game_state.game_over
    /\ key_code = "None"
    /\ ~game_should_end
    /\ game_state.errors /= <<>>
    /\ game_state.final_elapsed_time_seconds /= Some(elapsed_seconds)

\* C14: an iteration that reads a resize event, at the start prompt or in
\* the game loop, changes no field of the game state, but for game_over and
\* final_elapsed_time_seconds when the end check of that iteration finds the
\* game over; it keeps the prompt waiting and services no key.
C14_ResizeOnlyResizes ==
    [][\A sz \in Sizes :
         /\ (KeepsGameState /\ PromptIter(Resize(sz[1], sz[2])))
              => (pc' = "prompt" /\ game_state' = game_state)
         /\ (KeepsGameState
               /\ GameLoopIter(elapsed_seconds' - elapsed_seconds, Resize(sz[1], sz[2])))
              => /\ key_code' = "None"
                 /\ game_state' =
                      [game_state EXCEPT
                         !.game_over = game_state'.game_over,
                         !.final_elapsed_time_seconds =
                            game_state'.final_elapsed_time_seconds]
                 /\ game_state'.game_over = (game_state.game_over \/ game_should_end')
                 /\ ~game_should_end'
                      => game_state'.final_elapsed_time_seconds =
                           game_state.final_elapsed_time_seconds]_vars

\* C14's case: the active game, with a character typed, is about to read a
\* resize event that changes the cached size.
C14_Witness ==
    /\ pc = "game_loop"
    /\ ~game_state.game_over
    /\ game_state.typed_chars_total = 1
    /\ term_cols = 80
    /\ ENABLED (/\ GameLoopIter(0, Resize(100, 30))
                /\ pc' = "game_loop"
                /\ term_cols' = 100)

\* C15: run_game never returns, with Ok or with Err, leaving the terminal
\* in raw mode with its cursor hidden: every return that follows
\* enable_raw_mode and Hide has shown the cursor or left raw mode before.
C15_TerminalRestored ==
    pc \in {"Ok", "Err"} => ~(raw_mode /\ cursor_hidden)

\* C16: run_game reaches the start prompt, and with it the game loop, only
\* with a non-empty list of words that get_words_for_game returned; when
\* every result get_words_for_game can give is an Err or an empty list,
\* run_game returns Err from its setup, and no start_time is ever set and
\* no key ever counted but in the game loop.
C16_SelectionFailureReturns ==
    /\ [](pc \in {"prompt", "game_loop", "panic"}
            => /\ game_state.words_to_type /= <<>>
               /\ [ok |-> TRUE, words |-> game_state.words_to_type]
                     \in get_words_for_game(config, all_words, all_quotes))
    /\ []((is_some(game_state.start_time) \/ game_state.typed_chars_total > 0)
            => pc \in {"game_loop", "panic"})
    /\ [][(/\ pc = "entry"
           /\ \A sel \in get_words_for_game(config, all_words, all_quotes) :
                ~sel.ok \/ sel.words = <<>>)
          => pc' = "Err"]_vars

\* C16's case: run_game has returned Err for a Words game of zero words
\* on a corpus that is not empty, the terminal as the selection left it.
C16_Witness ==
    /\ pc = "Err"
    /\ config.game_type = "Words"
    /\ config.word_count = Some(0)
    /\ all_words /= <<>>
    /\ raw_mode
    /\ cursor_hidden

\* get_words_for_game has returned.
Selected == pc = "selected"

\* The count a config asks for: 300 in Time mode, word_count or 30 in Words
\* mode.
RequestedCount(cfg) ==
    IF cfg.game_type = "Time" THEN 300
    ELSE IF cfg.word_count = None THEN 30 ELSE cfg.word_count[1]

\* The pool as the specification describes it: the words a difficulty
\* keeps by their length in characters, the whole corpus when it keeps none.
PoolByChars(words, difficulty) ==
    LET keep(w) == CASE difficulty = "Easy" -> Len(w) <= 5
                     [] difficulty = "Medium" -> Len(w) <= 8
                     [] OTHER -> TRUE
        kept == SelectSeq(words, keep)
    IN IF kept = <<>> THEN words ELSE kept

\* The number of times w occurs in the sequence seq.
Occurrences(seq, w) == Cardinality({ i \in DOMAIN seq : seq[i] = w })

\* The sequences a and b hold the same elements the same number of times.
SameElements(a, b) ==
    /\ Len(a) = Len(b)
    /\ \A i \in DOMAIN a : Occurrences(a, a[i]) = Occurrences(b, a[i])

\* C17: in Quote mode, on a corpus of quotes that is not empty,
\* get_words_for_game returns Ok with a list of words that is not empty and
\* is the whitespace split of the text of a quote of the corpus.
C17_QuoteSelection ==
    (Selected /\ config.game_type = "Quote" /\ all_quotes /= <<>>)
      => /\ selection.ok
         /\ selection.words /= <<>>
         /\ \E i \in 1..Len(all_quotes) :
              selection.words = split_whitespace(all_quotes[i].text, <<>>)

\* C18: in Time and Words mode the words get_words_for_game returns are
\* min(requested count, size of the pool) in number, pairwise different,
\* and all words of the pool.
C18_SampleOfPool ==
    (Selected /\ config.game_type /= "Quote" /\ selection.ok)
      => LET pool == PoolByChars(all_words, config.difficulty)
             requested == RequestedCount(config)
             words == selection.words
         IN /\ Len(words) = IF Len(pool) < requested THEN Len(pool) ELSE requested
            /\ \A i, j \in 1..Len(words) : i /= j => words[i] /= words[j]
            /\ \A i \in 1..Len(words) : \E k \in 1..Len(pool) : words[i] = pool[k]

\* C19: in Time and Words mode, on a corpus of words that is not empty,
\* the words get_words_for_game returns are words of the corpus that the
\* difficulty keeps (of at most 5 characters for Easy, 8 for Medium, any
\* for Hard), or of the whole corpus when it keeps none; a Time game gets
\* that whole pool, and the selection fails only for a count of zero.
C19_PoolByDifficulty ==
    (Selected /\ config.game_type /= "Quote" /\ all_words /= <<>>)
      => LET pool == PoolByChars(all_words, config.difficulty)
             words == selection.words
         IN /\ \A i \in 1..Len(words) : \E k \in 1..Len(pool) : words[i] = pool[k]
            /\ config.game_type = "Time" => SameElements(words, pool)
            /\ RequestedCount(config) > 0 => selection.ok

C21_TimedNeverRunsOut ==
    (pc = "game_loop" /\ config.game_type = "Time" /\ ~game_state.game_over)
      => HasTarget(game_state)

\* calculate_wpm has returned, from arguments with correct_chars at most
\* total_chars_typed.
Calculated == pc = "calculated" /\ wpm.correct_chars <= wpm.total_chars_typed

\* The f64 r is the quotient n / d, for d > 0.
IsQuotient(r, n, d) == r.n * d = n * r.d

\* C22: for correct <= typed, calculate_wpm returns (0, 0, 100) when typed
\* is 0; gross = net = 0 and accuracy = correct / typed * 100 when typed > 0
\* and the time is under 0.01 s; and otherwise gross = (typed / 5) /
\* (time / 60), net = max(0, gross - (typed - correct) / (time / 60)) and
\* accuracy = correct / typed * 100.  So correct = typed > 0 gives an
\* accuracy of 100, and (45, 50, 30 s) gives (20, 10, 90).
C22_MetricsReference ==
    Calculated
      => LET correct == wpm.correct_chars
             typed == wpm.total_chars_typed
             time == wpm.time_seconds
             res == wpm.result
             \* (typed / 5) / (time / 60) = 12 * typed * time.d / time.n, and
             \* (typed - correct) / (time / 60) = 60 * (typed - correct) * time.d / time.n
             gross == 12 * typed * time.d
             net == gross - 60 * (typed - correct) * time.d
         IN /\ IF typed = 0
               THEN /\ IsQuotient(res.gross_wpm, 0, 1)
                    /\ IsQuotient(res.net_wpm, 0, 1)
                    /\ IsQuotient(res.accuracy, 100, 1)
               ELSE IF time.n * 100 < time.d
               THEN /\ IsQuotient(res.gross_wpm, 0, 1)
                    /\ IsQuotient(res.net_wpm, 0, 1)
                    /\ IsQuotient(res.accuracy, 100 * correct, typed)
               ELSE /\ IsQuotient(res.gross_wpm, gross, time.n)
                    /\ IsQuotient(res.net_wpm, IF net < 0 THEN 0 ELSE net, time.n)
                    /\ IsQuotient(res.accuracy, 100 * correct, typed)
            /\ (typed > 0 /\ correct = typed) => IsQuotient(res.accuracy, 100, 1)
            /\ (correct = 45 /\ typed = 50 /\ IsQuotient(time, 30, 1))
                 => /\ IsQuotient(res.gross_wpm, 20, 1)
                    /\ IsQuotient(res.net_wpm, 10, 1)
                    /\ IsQuotient(res.accuracy, 90, 1)

\* C22's case: calculate_wpm has returned (20, 10, 90) for 45 correct
\* characters of 50 typed in 30 seconds.
C22_Witness ==
    /\ Calculated
    /\ wpm.correct_chars = 45
    /\ wpm.total_chars_typed = 50
    /\ wpm.time_seconds = as_f64(30)
    /\ wpm.result = [gross_wpm |-> as_f64(20), net_wpm |-> as_f64(10),
                     accuracy |-> as_f64(90)]

\* C23: for correct <= typed and a time that is not negative,
\* calculate_wpm returns 0 <= net_wpm <= gross_wpm.
C23_NetBetweenZeroAndGross ==
    (Calculated /\ wpm.time_seconds.n >= 0)
      => LET net == wpm.result.net_wpm
             gross == wpm.result.gross_wpm
         IN /\ net.n >= 0
            /\ net.n * gross.d <= gross.n * net.d

\* C23's case: the penalty of the errors is above gross_wpm, and net_wpm
\* is 0 under a positive gross_wpm.
C23_Witness ==
    /\ Calculated
    /\ wpm.total_chars_typed = 2
    /\ wpm.correct_chars = 1
    /\ wpm.result.gross_wpm.n > 0
    /\ wpm.result.net_wpm.n = 0

\* C24: run_game leaves the start prompt only for the game loop or with an
\* Err, and enters the game loop only on a key event, which sets start_time
\* and changes no other field of the game state, all of them as
\* GameState::new left them; start_time is None at the prompt and set in
\* the game loop; the game loop never goes back to the prompt, a game that
\* is over stays over, and run_game returns Ok only from an iteration of
\* the game loop that finds the game over.
C24_ForwardOnly ==
    /\ [](pc \in {"entry", "prompt"} => game_state.start_time = None)
    /\ [](pc \in {"game_loop", "panic"} => is_some(game_state.start_time))
    /\ [][/\ (pc = "prompt" /\ pc' /= "prompt") => pc' \in {"game_loop", "Err"}
          /\ (pc = "prompt" /\ pc' = "game_loop")
               => /\ game_state =
                       GameState_new(config, all_words, all_quotes,
                                     game_state.words_to_type)
                  /\ game_state' = [game_state EXCEPT !.start_time = Some(0)]
                  /\ \A ev \in Events \cup {NoEvent} :
                       ev.type /= "Key" => ~PromptIter(ev)
          /\ pc = "game_loop" => pc' \notin {"entry", "prompt"}
          /\ (pc = "game_loop" /\ game_state.game_over /\ KeepsGameState)
               => game_state'.game_over
          /\ pc' = "Ok"
               => /\ pc = "game_loop"
                  /\ \/ game_state.game_over
                     \/ \E dt \in 0..1 :
                          end_condition(game_state, elapsed_seconds + dt)]_vars

\* C24's case: a key has just started a Quote game, nothing typed yet.
C24_Witness ==
    /\ pc = "game_loop"
    /\ config.game_type = "Quote"
    /\ key_code = "None"
    /\ game_state =
         [GameState_new(config, all_words, all_quotes, game_state.words_to_type)
            EXCEPT !.start_time = Some(0)]

\* The end condition of the specification, for a config that sets what its
\* mode needs.
EndConditionMet(gs, elapsed) ==
    CASE gs.config.game_type = "Time" /\ is_some(gs.config.time_seconds) ->
           elapsed >= unwrap(gs.config.time_seconds)
      [] gs.config.game_type = "Words" /\ is_some(gs.config.word_count) ->
           gs.current_word_index >= unwrap(gs.config.word_count)
      [] gs.config.game_type = "Quote" ->
           gs.current_word_index >= Len(gs.words_to_type)
      [] OTHER -> FALSE

\* C25: an iteration of the active game whose end condition is met
\* services no key and leaves the indices, the buffers and the counters as
\* they were; an iteration of the active game services at most one event:
\* no counter or index grows, and no buffer grows or shrinks, by more than
\* one.
C25_EndCheckFirst ==
    [][ActiveTick
         => /\ EndConditionMet(game_state, elapsed_seconds')
                 => /\ key_code' = "None"
                    /\ game_state' =
                         [game_state EXCEPT
                            !.game_over = TRUE,
                            !.final_elapsed_time_seconds = Some(elapsed_seconds')]
            /\ game_state'.typed_chars_total <= game_state.typed_chars_total + 1
            /\ game_state'.correct_chars_total <= game_state.correct_chars_total + 1
            /\ game_state'.current_word_index <= game_state.current_word_index + 1
            /\ Len(game_state'.errors) - Len(game_state.errors) \in {-1, 0, 1}
            /\ \/ Len(game_state'.user_input) - Len(game_state.user_input) \in {-1, 0, 1}
               \/ game_state'.current_word_index = game_state.current_word_index + 1]_vars

\* C25's case: a Time game has just been found over by an iteration that
\* serviced no key, an error still pending.
C25_Witness ==
    /\ pc = "game_loop"
    /\ config.game_type = "Time"
    /\ game_should_end
    /\ game_state.game_over
    /\ key_code = "None"
    /\ game_state.typed_chars_total = 2
    /\ game_state.errors /= <<>>

\* C26: while a word is left, user_input is the first current_char_index
\* characters of the target word; when none is left, user_input is empty
\* and current_char_index is 0.
C26_InputIsPrefix ==
    IF HasTarget(game_state)
    THEN /\ game_state.current_char_index <= Len(TargetWord(game_state))
         /\ game_state.user_input =
              SubSeq(TargetWord(game_state), 1, game_state.current_char_index)
    ELSE /\ game_state.user_input = <<>>
         /\ game_state.current_char_index = 0

\* C26's case: the first character of the second word has been accepted.
C26_Witness ==
    /\ pc = "game_loop"
    /\ game_state.current_word_index = 1
    /\ HasTarget(game_state)
    /\ game_state.current_char_index = 1
    /\ game_state.user_input = <<"a">>
    /\ game_state.typed_chars_total = 4

\* C27: in Words mode, an iteration of the active game that starts with no
\* word left finds the game over.
C27_WordsEndWhenAllTyped ==
    [][(ActiveTick /\ config.game_type = "Words" /\ ~HasTarget(game_state))
         => (game_should_end' /\ game_state'.game_over)]_vars

\* C28: a Time game that is active is later over, or run_game has returned
\* (Ok after the game was found over, Err on an I/O failure), under
\* LiveSpec; and an iteration of an active Time game that finds the time
\* up finds the game over, whatever the event.
C28_TimedGameEnds ==
    /\ (pc = "game_loop" /\ config.game_type = "Time" /\ ~game_state.game_over)
         ~> (game_state.game_over \/ pc \in {"Ok", "Err", "exit"})
    /\ [][(ActiveTick /\ config.game_type = "Time"
             /\ elapsed_seconds' >= unwrap_or(config.time_seconds, 0))
            => game_state'.game_over]_vars

====
